---- MODULE Spec2Model ----
(***************************************************************************)
(* Model of the book controller (src/src/book/bookController.ts): the      *)
(* handlers createBook, updateBook and deleteBook running as concurrent    *)
(* requests against the catalog store (bookModel), the remote object store *)
(* (cloudinary.uploader) and the local upload directory (fs).              *)
(*                                                                         *)
(* A handler runs on the single Node.js thread: the code between two       *)
(* awaits is one atomic step.  Each action below is one such step: the     *)
(* resolution of the awaited call (its effect on the store and its outcome)*)
(* followed by the synchronous code up to the next awaited call.           *)
(*                                                                         *)
(* Strings that the code takes apart (mimetype, secure_url) are sequences  *)
(* of tokens in which "/" and "." are tokens of their own.                 *)
(***************************************************************************)
EXTENDS Integers, Sequences, FiniteSets, TLC

\* ------------------------------------------------------------------ bounds

\* Requests received by the server in one behaviour.
MaxRequests == 2

\* Identifiers the catalog store can assign: the first book's, and one per
\* request at most.
BookIds == 1..(MaxRequests + 1)

\* The connections that carry requests at the same time.
Procs == 1..2
Users == {"u1", "u2"}

\* ------------------------------------------------------------- string model

Undefined == "undefined"

\* String.prototype.split(sep): the pieces between the separators.
RECURSIVE Split(_, _)
Split(s, sep) ==
    IF \A i \in 1..Len(s) : s[i] # sep
    THEN <<s>>
    ELSE LET i == CHOOSE k \in 1..Len(s) :
                      s[k] = sep /\ \A j \in 1..(k - 1) : s[j] # sep
         IN  <<SubSeq(s, 1, i - 1)>> \o Split(SubSeq(s, i + 1, Len(s)), sep)

\* Array.prototype.at(-k): the k-th element from the end, or undefined.
AtEnd(a, k) == IF Len(a) >= k THEN a[Len(a) - k + 1] ELSE <<Undefined>>

\* String.prototype.startsWith(prefix).
StartsWith(s, prefix) ==
    Len(s) >= Len(prefix) /\ SubSeq(s, 1, Len(prefix)) = prefix

\* String.prototype.includes(word), for a one-token word.
Includes(s, word) == \E i \in 1..Len(s) : s[i] = word

ImagePng == <<"image", "/", "png">>
AppPdf   == <<"application", "/", "pdf">>
Mimetypes == {ImagePng, AppPdf}


\* ------------------------------------------------------- remote object store

\* secure_url of a stored object: images are served as <public id>.<format>,
\* raw objects under their public id, which carries the extension.
UrlBase == <<"https:", "/", "/", "res", ".", "cloudinary", ".", "com", "/">>

UrlOf(o) ==
    UrlBase \o <<o.kind, "/", "upload", "/">> \o o.publicId
            \o (IF o.kind = "image" THEN <<".", o.format>> ELSE <<>>)

\* cloudinary.uploader.upload(path, {folder: "book-covers", format}): the
\* object stored by the n-th upload of the run.
ImageObject(n, format) ==
    [kind |-> "image", publicId |-> <<"book-covers", "/", ToString(n)>>,
     format |-> format]

\* cloudinary.uploader.upload(path, {resource_type: "raw", folder:
\* "book-pdfs", format: "pdf"}).
RawObject(n) ==
    [kind |-> "raw", publicId |-> <<"book-pdfs", "/", ToString(n), ".", "pdf">>,
     format |-> "pdf"]

\* cloudinary.uploader.destroy(publicId, {resource_type: kind}): what is left
\* of the store; an unknown public id deletes nothing and is no error.
Destroyed(store, publicId, kind) ==
    {o \in store : ~(o.kind = kind /\ o.publicId = publicId)}

\* Errors an upload call is rejected with.
UploadErrors ==
    { [name |-> "Error", code |-> "", message |-> <<"cloudinary", "unreachable">>],
      [name |-> "Error", code |-> "", message |-> <<"Request", "Timeout">>] }

\* Errors bookModel.create is rejected with.  The message of a
\* ValidationError quotes the rejected values, which are the request's
\* strings and the two URLs of the remote store.
CreateErrors ==
    { [name |-> "ValidationError", code |-> "",
       message |-> <<"Book", "validation", "failed">>],
      [name |-> "ValidationError", code |-> "",
       message |-> <<"Book", "validation", "failed", "coverImage", "res",
                     ".", "cloudinary", ".", "com">>],
      [name |-> "MongoNetworkError", code |-> "",
       message |-> <<"connection", "closed">>] }

\* Error of any other rejected catalog call (findOne, findOneAndUpdate,
\* deleteOne).
StoreError ==
    [name |-> "MongoNetworkError", code |-> "",
     message |-> <<"connection", "closed">>]

NoErr == [name |-> "", code |-> "", message |-> <<>>]

\* ------------------------------------------------------------------- state

VARIABLES
    catalog,    \* bookModel: book id -> its record, or NoBook
    lastId,     \* the last identifier the catalog store assigned
    remote,     \* the objects in the remote store
    nUploads,   \* uploads the remote store has accepted (names its objects)
    disk,       \* paths that exist in public/data/uploads
    nReq,       \* requests received so far
    req         \* per connection: the request being handled and its locals

vars == <<catalog, lastId, remote, nUploads, disk, nReq, req>>

NoPath == [req |-> 0, field |-> ""]
NoFile ==
    [present |-> FALSE, mimetype |-> <<>>, filename |-> <<>>, path |-> NoPath]
NoBook == [none |-> TRUE]
NoBody == [none |-> TRUE]
NullBody == [null |-> TRUE]
NoResp == [status |-> 0, message |-> <<>>, body |-> NoBody]
EmptyFields == [title |-> "", genre |-> "", description |-> ""]

\* Express.Multer.File of field f staged for request n: filename is the
\* name the upload middleware gave the file in public/data/uploads, path
\* stands for the path resolved from it.
StagedFile(n, f, mimetype) ==
    [present |-> TRUE, mimetype |-> mimetype,
     filename |-> <<ToString(n), "-", f>>,
     path |-> [req |-> n, field |-> f]]

IdleReq ==
    [op |-> "none", pc |-> "idle", id |-> 0, userId |-> "", bookId |-> 0,
     body |-> EmptyFields, coverImage |-> NoFile, file |-> NoFile,
     book |-> NoBook, coverUrl |-> <<>>, fileUrl |-> <<>>, err |-> NoErr,
     uploads |-> 0, destroys |-> 0, writes |-> 0,
     unlinked |-> {}, unlinkFailed |-> FALSE, uploadFailed |-> FALSE,
     destroyFailed |-> FALSE, resp |-> NoResp]

\* The server starts on a catalog that holds one book, which "u1" created
\* earlier: its two objects are the remote store's first two uploads, its
\* temp files are gone.
FirstCover == ImageObject(1, "png")
FirstFile  == RawObject(2)
FirstBook ==
    [title |-> "Dune", description |-> "sand", genre |-> "SciFi",
     author |-> "u1", coverImage |-> UrlOf(FirstCover), file |-> UrlOf(FirstFile)]

Init ==
    /\ catalog = [b \in BookIds |-> IF b = 1 THEN FirstBook ELSE NoBook]
    /\ lastId = 1
    /\ remote = {FirstCover, FirstFile}
    /\ nUploads = 2
    /\ disk = {}
    /\ nReq = 0
    /\ req = [p \in Procs |-> IdleReq]

\* The paths the upload middleware has put on disk for an arriving request.
Staged(cover, file, coverOnDisk, fileOnDisk) ==
    (IF cover.present /\ coverOnDisk THEN {cover.path} ELSE {})
        \cup (IF file.present /\ fileOnDisk THEN {file.path} ELSE {})

\* next(createHttpError(status, message)), res.status(..).json(body) or
\* res.sendStatus: the request is answered and the handler returns, which
\* ends the life of its locals.  What the request did stays on record.
Respond(r, status, message, body) ==
    [IdleReq EXCEPT !.pc = "done", !.op = r.op, !.id = r.id,
                    !.bookId = r.bookId, !.uploads = r.uploads,
                    !.destroys = r.destroys, !.writes = r.writes,
                    !.unlinked = r.unlinked, !.unlinkFailed = r.unlinkFailed,
                    !.uploadFailed = r.uploadFailed,
                    !.destroyFailed = r.destroyFailed,
                    !.resp = [status |-> status, message |-> message,
                              body |-> body]]

\* A connection is busy from the arrival of a request to its answer.
Busy(p) == req[p].pc \notin {"idle", "done"}

\* Express hands a request to its route: the upload middleware has staged
\* the files that arrived, and the handler is about to run.  A request
\* comes in on the first connection that is not busy.
Receive(p, op, user, bookId, body, cover, file, coverOnDisk, fileOnDisk) ==
    /\ ~Busy(p)
    /\ \A q \in Procs : q < p => Busy(q)
    /\ nReq < MaxRequests
    /\ req' = [req EXCEPT ![p] =
                 [IdleReq EXCEPT !.op = op, !.pc = "received", !.id = nReq + 1,
                                 !.userId = user, !.bookId = bookId,
                                 !.body = body, !.coverImage = cover,
                                 !.file = file]]
    /\ disk' = disk \cup Staged(cover, file, coverOnDisk, fileOnDisk)
    /\ nReq' = nReq + 1
    /\ UNCHANGED <<catalog, lastId, remote, nUploads>>

\* ------------------------------------------------------------- createBook

\* CreateValidate without the check of the document's content type.
CreateValidate_noPdfCheck(body, cover, file, onDisk) ==
    IF body.title = "" \/ body.genre = "" \/ body.description = ""
        THEN <<"Title, genre, and description are required">>
    ELSE IF ~cover.present THEN <<"Cover image is required">>
    ELSE IF ~file.present THEN <<"Book file is required">>
    ELSE IF ~StartsWith(cover.mimetype, <<"image", "/">>)
        THEN <<"Cover image must be an image file">>
    ELSE IF cover.path \notin onDisk
        THEN <<"Cover image file not found on server">>
    ELSE IF file.path \notin onDisk THEN <<"Book file not found on server">>
    ELSE <<>>

\* Lines 15-74: the checks made before the first upload, in order; the
\* message of the first that fails, or <<>> when all pass.
CreateValidate(body, cover, file, onDisk) ==
    IF body.title = "" \/ body.genre = "" \/ body.description = ""
        THEN <<"Title, genre, and description are required">>
    ELSE IF ~cover.present THEN <<"Cover image is required">>
    ELSE IF ~file.present THEN <<"Book file is required">>
    ELSE IF ~StartsWith(cover.mimetype, <<"image", "/">>)
        THEN <<"Cover image must be an image file">>
    ELSE IF file.mimetype # AppPdf THEN <<"Book file must be a PDF">>
    ELSE IF cover.path \notin onDisk
        THEN <<"Cover image file not found on server">>
    ELSE IF file.path \notin onDisk THEN <<"Book file not found on server">>
    ELSE <<>>

\* Lines 147-169: the answer to a failed create, by the error caught.
CreateFailure(r) ==
    IF Includes(r.err.message, "cloudinary")
        THEN Respond(r, 500, <<"Error uploading files to cloud storage">>, NoBody)
    ELSE IF r.err.name = "ValidationError"
        THEN Respond(r, 400, <<"Invalid book data: ">> \o r.err.message, NoBody)
    ELSE IF r.err.code = "ENOENT"
        THEN Respond(r, 400, <<"File not found on server">>, NoBody)
    ELSE Respond(r, 500, <<"Error while uploading the files: ">> \o r.err.message,
                 NoBody)

\* CreateCatchFile that leaves the document temp file alone.
CreateCatchFile_noUnlink(r, onDisk) == CreateFailure(r)

\* Lines 137-145: the second half of the cleanup after a failure.
CreateCatchFile(r, onDisk) ==
    IF r.file.path \in onDisk
    THEN [r EXCEPT !.pc = "catchUnlinkFile"]
    ELSE CreateFailure(r)

\* Lines 126-145: the catch block is entered with the error e.
CreateCatch(r, e, onDisk) ==
    LET c == [r EXCEPT !.err = e]
    IN  IF c.coverImage.path \in onDisk
        THEN [c EXCEPT !.pc = "catchUnlinkCover"]
        ELSE CreateCatchFile(c, onDisk)

\* Lines 10-81: the request is validated and, if valid, the cover upload is
\* called.
CreateStart(p) ==
    /\ req[p].op = "create" /\ req[p].pc = "received"
    /\ LET r       == req[p]
           problem == CreateValidate(r.body, r.coverImage, r.file, disk)
       IN  req' = [req EXCEPT ![p] =
                     IF problem # <<>>
                     THEN Respond(r, 400, problem, NoBody)
                     ELSE [r EXCEPT !.pc = "uploadCover"]]
    /\ UNCHANGED <<catalog, lastId, remote, nUploads, disk, nReq>>

\* CoverUpload on a store that names the object after the file, as it does
\* under use_filename.
CoverUpload_useFilename(file, n) ==
    [kind |-> "image", publicId |-> <<"book-covers", "/">> \o file.filename,
     format |-> AtEnd(Split(file.mimetype, "/"), 1)[1]]

\* Lines 47, 81-85: upload(filePath, {filename_override: fileName, folder:
\* "book-covers", format: coverImageMimeType}).  The options ask for no
\* use_filename and no public_id, so the store names the object itself and
\* the file name is kept as metadata only.
CoverUpload(file, n) ==
    ImageObject(n, AtEnd(Split(file.mimetype, "/"), 1)[1])

\* Lines 81-90: the cover upload returns; the document upload is called.
CreateCoverUploaded(p) ==
    /\ req[p].op = "create" /\ req[p].pc = "uploadCover"
    /\ LET o == CoverUpload(req[p].coverImage, nUploads + 1)
       IN  /\ remote' = remote \cup {o}
           /\ nUploads' = nUploads + 1
           /\ req' = [req EXCEPT ![p] =
                        [@ EXCEPT !.pc = "uploadFile", !.coverUrl = UrlOf(o),
                                  !.uploads = @ + 1]]
    /\ UNCHANGED <<catalog, lastId, disk, nReq>>

\* Lines 81-85, 126-136: the cover upload throws.
CreateCoverFailed(p) ==
    /\ req[p].op = "create" /\ req[p].pc = "uploadCover"
    /\ \E e \in UploadErrors :
         req' = [req EXCEPT ![p] =
                   CreateCatch([@ EXCEPT !.uploads = @ + 1, !.uploadFailed = TRUE],
                               e, disk)]
    /\ UNCHANGED <<catalog, lastId, remote, nUploads, disk, nReq>>

\* CreateFileUploaded going on to the removal of the temp files instead of
\* the creation of the record.
CreateFileUploaded_cleanupFirst(p) ==
    /\ req[p].op = "create" /\ req[p].pc = "uploadFile"
    /\ LET o == RawObject(nUploads + 1)
       IN  /\ remote' = remote \cup {o}
           /\ nUploads' = nUploads + 1
           /\ req' = [req EXCEPT ![p] =
                        [@ EXCEPT !.pc = "unlinkCover", !.fileUrl = UrlOf(o),
                                  !.uploads = @ + 1]]
    /\ UNCHANGED <<catalog, lastId, disk, nReq>>

\* Lines 90-105: the document upload returns; bookModel.create is called.
CreateFileUploaded(p) ==
    /\ req[p].op = "create" /\ req[p].pc = "uploadFile"
    /\ LET o == RawObject(nUploads + 1)
       IN  /\ remote' = remote \cup {o}
           /\ nUploads' = nUploads + 1
           /\ req' = [req EXCEPT ![p] =
                        [@ EXCEPT !.pc = "persist", !.fileUrl = UrlOf(o),
                                  !.uploads = @ + 1]]
    /\ UNCHANGED <<catalog, lastId, disk, nReq>>

\* CreateFileFailed compensating the failure by the removal of the cover
\* object the request had uploaded.
CreateFileFailed_rollsBack(p) ==
    /\ req[p].op = "create" /\ req[p].pc = "uploadFile"
    /\ remote' = {o \in remote : UrlOf(o) # req[p].coverUrl}
    /\ \E e \in UploadErrors :
         req' = [req EXCEPT ![p] =
                   CreateCatch([@ EXCEPT !.uploads = @ + 1, !.uploadFailed = TRUE],
                               e, disk)]
    /\ UNCHANGED <<catalog, lastId, nUploads, disk, nReq>>

\* Lines 90-98, 126-136: the document upload throws.
CreateFileFailed(p) ==
    /\ req[p].op = "create" /\ req[p].pc = "uploadFile"
    /\ \E e \in UploadErrors :
         req' = [req EXCEPT ![p] =
                   CreateCatch([@ EXCEPT !.uploads = @ + 1, !.uploadFailed = TRUE],
                               e, disk)]
    /\ UNCHANGED <<catalog, lastId, remote, nUploads, disk, nReq>>

\* NewBook with the two URLs stored in each other's field.
NewBook_urlsSwapped(r) ==
    [title |-> r.body.title, description |-> r.body.description,
     genre |-> r.body.genre, author |-> r.userId,
     coverImage |-> r.fileUrl, file |-> r.coverUrl]

\* The record bookModel.create stores (lines 105-112).
NewBook(r) ==
    [title |-> r.body.title, description |-> r.body.description,
     genre |-> r.body.genre, author |-> r.userId,
     coverImage |-> r.coverUrl, file |-> r.fileUrl]

\* Lines 105-117: the record is created; the cover temp file's unlink is
\* called.
CreatePersisted(p) ==
    /\ req[p].op = "create" /\ req[p].pc = "persist"
    /\ lastId' = lastId + 1
    /\ catalog' = [catalog EXCEPT ![lastId + 1] = NewBook(req[p])]
    /\ req' = [req EXCEPT ![p] =
                 [@ EXCEPT !.pc = "unlinkCover", !.bookId = lastId + 1,
                           !.writes = @ + 1]]
    /\ UNCHANGED <<remote, nUploads, disk, nReq>>

\* Lines 105-112, 126-136: bookModel.create throws.
CreatePersistFailed(p) ==
    /\ req[p].op = "create" /\ req[p].pc = "persist"
    /\ \E e \in CreateErrors :
         req' = [req EXCEPT ![p] = CreateCatch(req[p], e, disk)]
    /\ UNCHANGED <<catalog, lastId, remote, nUploads, disk, nReq>>

\* fs.promises.unlink(path) resolves: the path is gone.  It can do so only
\* for a path that exists.
UnlinkOk(p, f) ==
    /\ req[p][f].path \in disk
    /\ disk' = disk \ {req[p][f].path}

\* fs.promises.unlink(path) rejects (ENOENT, EPERM, EBUSY ...).
UnlinkFails(p, f) == disk' = disk

\* Lines 117-118: the cover temp file is unlinked; the document's unlink is
\* called.
CreateUnlinkedCover(p) ==
    /\ req[p].op = "create" /\ req[p].pc = "unlinkCover"
    /\ UnlinkOk(p, "coverImage")
    /\ req' = [req EXCEPT ![p] =
                 [@ EXCEPT !.pc = "unlinkFile",
                           !.unlinked = @ \cup {"coverImage"}]]
    /\ UNCHANGED <<catalog, lastId, remote, nUploads, nReq>>

\* Lines 117, 120-125: unlinking the cover temp file throws; 201 is sent.
CreateUnlinkCoverFailed(p) ==
    /\ req[p].op = "create" /\ req[p].pc = "unlinkCover"
    /\ UnlinkFails(p, "coverImage")
    /\ req' = [req EXCEPT ![p] =
                 Respond([@ EXCEPT !.unlinked = @ \cup {"coverImage"},
                                   !.unlinkFailed = TRUE],
                         201, <<>>, [id |-> req[p].bookId])]
    /\ UNCHANGED <<catalog, lastId, remote, nUploads, nReq>>

\* Lines 118-125: the document temp file is unlinked (or not); 201 is sent.
CreateUnlinkedFile(p) ==
    /\ req[p].op = "create" /\ req[p].pc = "unlinkFile"
    /\ \/ /\ UnlinkOk(p, "file")
          /\ req' = [req EXCEPT ![p] =
                       Respond([@ EXCEPT !.unlinked = @ \cup {"file"}],
                               201, <<>>, [id |-> req[p].bookId])]
       \/ /\ UnlinkFails(p, "file")
          /\ req' = [req EXCEPT ![p] =
                       Respond([@ EXCEPT !.unlinked = @ \cup {"file"},
                                         !.unlinkFailed = TRUE],
                               201, <<>>, [id |-> req[p].bookId])]
    /\ UNCHANGED <<catalog, lastId, remote, nUploads, nReq>>

\* Lines 134-145: after a failure the cover temp file is unlinked (or not).
CreateCatchUnlinkedCover(p) ==
    /\ req[p].op = "create" /\ req[p].pc = "catchUnlinkCover"
    /\ \/ /\ UnlinkOk(p, "coverImage")
          /\ req' = [req EXCEPT ![p] =
                       CreateCatchFile([@ EXCEPT !.unlinked = @ \cup {"coverImage"}],
                                       disk')]
       \/ /\ UnlinkFails(p, "coverImage")
          /\ req' = [req EXCEPT ![p] =
                       CreateFailure([@ EXCEPT !.unlinked = @ \cup {"coverImage"},
                                               !.unlinkFailed = TRUE])]
    /\ UNCHANGED <<catalog, lastId, remote, nUploads, nReq>>

\* Lines 137-169: after a failure the document temp file is unlinked (or
\* not); the error is answered.
CreateCatchUnlinkedFile(p) ==
    /\ req[p].op = "create" /\ req[p].pc = "catchUnlinkFile"
    /\ \/ /\ UnlinkOk(p, "file")
          /\ req' = [req EXCEPT ![p] =
                       CreateFailure([@ EXCEPT !.unlinked = @ \cup {"file"}])]
       \/ /\ UnlinkFails(p, "file")
          /\ req' = [req EXCEPT ![p] =
                       CreateFailure([@ EXCEPT !.unlinked = @ \cup {"file"},
                                               !.unlinkFailed = TRUE])]
    /\ UNCHANGED <<catalog, lastId, remote, nUploads, nReq>>

\* ------------------------------------------------------------- updateBook

\* Lines 293-300: the answer of the outer catch of updateBook.
UpdateFailure(r, e) ==
    Respond(r, 500, <<"Error while updating the book: ">> \o e.message, NoBody)

\* Lines 242-280: the document part of an update, up to its next awaited
\* call.
UpdateFilePart(r, onDisk) ==
    IF ~r.file.present THEN [r EXCEPT !.pc = "persist"]
    ELSE IF r.file.mimetype # AppPdf
        THEN Respond(r, 400, <<"Book file must be a PDF">>, NoBody)
    ELSE IF r.file.path \notin onDisk
        THEN Respond(r, 400, <<"Book file not found on server">>, NoBody)
    ELSE [r EXCEPT !.pc = "uploadFile"]

\* Lines 195-222: the cover part of an update, up to its next awaited call.
UpdateCoverPart(r, onDisk) ==
    IF ~r.coverImage.present THEN UpdateFilePart(r, onDisk)
    ELSE IF ~StartsWith(r.coverImage.mimetype, <<"image", "/">>)
        THEN Respond(r, 400, <<"Cover image must be an image file">>, NoBody)
    ELSE IF r.coverImage.path \notin onDisk
        THEN Respond(r, 400, <<"Cover image file not found on server">>, NoBody)
    ELSE [r EXCEPT !.pc = "uploadCover"]

\* Lines 178-190: the record is looked up and the caller checked against
\* its author.
UpdateAccess(r, onDisk) ==
    IF r.book = NoBook THEN Respond(r, 404, <<"Book not found">>, NoBody)
    ELSE IF r.book.author # r.userId
        THEN Respond(r, 403, <<"You can not update others book.">>, NoBody)
    ELSE UpdateCoverPart(r, onDisk)

\* Lines 173-222: findOne returns the record (or null) and the handler runs
\* up to its first awaited call.
UpdateStart(p) ==
    /\ req[p].op = "update" /\ req[p].pc = "received"
    /\ req' = [req EXCEPT ![p] =
                 UpdateAccess([@ EXCEPT !.book = catalog[req[p].bookId]], disk)]
    /\ UNCHANGED <<catalog, lastId, remote, nUploads, disk, nReq>>

\* Lines 178, 293-300: findOne throws.
UpdateFindFailed(p) ==
    /\ req[p].op = "update" /\ req[p].pc = "received"
    /\ req' = [req EXCEPT ![p] = UpdateFailure(req[p], StoreError)]
    /\ UNCHANGED <<catalog, lastId, remote, nUploads, disk, nReq>>

\* Lines 222-232: the cover upload returns; the temp file's unlink is called.
UpdateCoverUploaded(p) ==
    /\ req[p].op = "update" /\ req[p].pc = "uploadCover"
    /\ LET o == ImageObject(nUploads + 1,
                            AtEnd(Split(req[p].coverImage.mimetype, "/"), 1)[1])
       IN  /\ remote' = remote \cup {o}
           /\ nUploads' = nUploads + 1
           /\ req' = [req EXCEPT ![p] =
                        [@ EXCEPT !.pc = "unlinkCover", !.coverUrl = UrlOf(o),
                                  !.uploads = @ + 1]]
    /\ UNCHANGED <<catalog, lastId, disk, nReq>>

\* Lines 222-238: the cover upload throws.
UpdateCoverFailed(p) ==
    /\ req[p].op = "update" /\ req[p].pc = "uploadCover"
    /\ req' = [req EXCEPT ![p] =
                 Respond([@ EXCEPT !.uploads = @ + 1, !.uploadFailed = TRUE],
                         500, <<"Error uploading cover image">>, NoBody)]
    /\ UNCHANGED <<catalog, lastId, remote, nUploads, disk, nReq>>

\* Lines 232-262: the cover temp file is unlinked and the document part
\* runs, or the unlink throws into the catch of the upload.
UpdateUnlinkedCover(p) ==
    /\ req[p].op = "update" /\ req[p].pc = "unlinkCover"
    /\ \/ /\ UnlinkOk(p, "coverImage")
          /\ req' = [req EXCEPT ![p] =
                       UpdateFilePart([@ EXCEPT !.unlinked = @ \cup {"coverImage"}],
                                      disk')]
       \/ /\ UnlinkFails(p, "coverImage")
          /\ req' = [req EXCEPT ![p] =
                       Respond([@ EXCEPT !.unlinked = @ \cup {"coverImage"},
                                         !.unlinkFailed = TRUE],
                               500, <<"Error uploading cover image">>, NoBody)]
    /\ UNCHANGED <<catalog, lastId, remote, nUploads, nReq>>

\* Lines 262-273: the document upload returns; the temp file's unlink is
\* called.
UpdateFileUploaded(p) ==
    /\ req[p].op = "update" /\ req[p].pc = "uploadFile"
    /\ LET o == RawObject(nUploads + 1)
       IN  /\ remote' = remote \cup {o}
           /\ nUploads' = nUploads + 1
           /\ req' = [req EXCEPT ![p] =
                        [@ EXCEPT !.pc = "unlinkFile", !.fileUrl = UrlOf(o),
                                  !.uploads = @ + 1]]
    /\ UNCHANGED <<catalog, lastId, disk, nReq>>

\* UpdateFileFailed with the error swallowed: the update goes on.
UpdateFileFailed_swallowed(p) ==
    /\ req[p].op = "update" /\ req[p].pc = "uploadFile"
    /\ req' = [req EXCEPT ![p] =
                 [@ EXCEPT !.pc = "persist", !.uploads = @ + 1,
                           !.uploadFailed = TRUE]]
    /\ UNCHANGED <<catalog, lastId, remote, nUploads, disk, nReq>>

\* Lines 262-277: the document upload throws.
UpdateFileFailed(p) ==
    /\ req[p].op = "update" /\ req[p].pc = "uploadFile"
    /\ req' = [req EXCEPT ![p] =
                 Respond([@ EXCEPT !.uploads = @ + 1, !.uploadFailed = TRUE],
                         500, <<"Error uploading book file">>, NoBody)]
    /\ UNCHANGED <<catalog, lastId, remote, nUploads, disk, nReq>>

\* Lines 273-280: the document temp file is unlinked and findOneAndUpdate is
\* called, or the unlink throws into the catch of the upload.
UpdateUnlinkedFile(p) ==
    /\ req[p].op = "update" /\ req[p].pc = "unlinkFile"
    /\ \/ /\ UnlinkOk(p, "file")
          /\ req' = [req EXCEPT ![p] =
                       [@ EXCEPT !.pc = "persist", !.unlinked = @ \cup {"file"}]]
       \/ /\ UnlinkFails(p, "file")
          /\ req' = [req EXCEPT ![p] =
                       Respond([@ EXCEPT !.unlinked = @ \cup {"file"},
                                         !.unlinkFailed = TRUE],
                               500, <<"Error uploading book file">>, NoBody)]
    /\ UNCHANGED <<catalog, lastId, remote, nUploads, nReq>>

\* a || b on strings: a unless it is empty.
OrElse(a, b) == IF a # <<>> THEN a ELSE b

\* UpdateFields without the fallback to the stored URLs.
UpdateFields_noFallback(r) ==
    [title |-> r.body.title, description |-> r.body.description,
     genre |-> r.body.genre, coverImage |-> r.coverUrl, file |-> r.fileUrl]

\* Lines 282-288: the fields findOneAndUpdate sets.
UpdateFields(r) ==
    [title |-> r.body.title, description |-> r.body.description,
     genre |-> r.body.genre,
     coverImage |-> OrElse(r.coverUrl, r.book.coverImage),
     file |-> OrElse(r.fileUrl, r.book.file)]

\* findOneAndUpdate({_id}, fields, {new: true}) on a stored record.
Updated(book, fields) ==
    [book EXCEPT !.title = fields.title, !.description = fields.description,
                 !.genre = fields.genre, !.coverImage = fields.coverImage,
                 !.file = fields.file]

\* UpdatePersisted setting a URL field only when its file was supplied, so
\* that the other keeps the value the store holds at the write.
UpdatePersisted_keepsStored(p) ==
    /\ req[p].op = "update" /\ req[p].pc = "persist"
    /\ LET id == req[p].bookId
       IN  IF catalog[id] = NoBook
           THEN /\ catalog' = catalog
                /\ req' = [req EXCEPT ![p] =
                             Respond([@ EXCEPT !.writes = @ + 1], 200, <<>>, NullBody)]
           ELSE /\ catalog' = [catalog EXCEPT ![id] =
                                 Updated(@, UpdateFields([req[p] EXCEPT !.book = catalog[id]]))]
                /\ req' = [req EXCEPT ![p] =
                             Respond([@ EXCEPT !.writes = @ + 1], 200, <<>>,
                                     catalog'[id])]
    /\ UNCHANGED <<lastId, remote, nUploads, disk, nReq>>

\* Lines 280-292: findOneAndUpdate returns the updated record, or null when
\* no record has the identifier; the result is sent with status 200.
UpdatePersisted(p) ==
    /\ req[p].op = "update" /\ req[p].pc = "persist"
    /\ LET id == req[p].bookId
       IN  IF catalog[id] = NoBook
           THEN /\ catalog' = catalog
                /\ req' = [req EXCEPT ![p] =
                             Respond([@ EXCEPT !.writes = @ + 1], 200, <<>>, NullBody)]
           ELSE /\ catalog' = [catalog EXCEPT ![id] =
                                 Updated(@, UpdateFields(req[p]))]
                /\ req' = [req EXCEPT ![p] =
                             Respond([@ EXCEPT !.writes = @ + 1], 200, <<>>,
                                     catalog'[id])]
    /\ UNCHANGED <<lastId, remote, nUploads, disk, nReq>>

\* Lines 280-300: findOneAndUpdate throws.
UpdatePersistFailed(p) ==
    /\ req[p].op = "update" /\ req[p].pc = "persist"
    /\ req' = [req EXCEPT ![p] = UpdateFailure(req[p], StoreError)]
    /\ UNCHANGED <<catalog, lastId, remote, nUploads, disk, nReq>>

\* ------------------------------------------------------------- deleteBook

\* Lines 390-395: the answer of the outer catch of deleteBook.
DeleteFailure(r, e) ==
    Respond(r, 500, <<"Error while deleting book: ">> \o e.message, NoBody)

\* Lines 360-364: the public id of the cover, taken from its URL.
CoverImagePublicId(book) ==
    LET coverFileSplits == Split(book.coverImage, "/")
    IN  AtEnd(coverFileSplits, 2) \o <<"/">>
            \o AtEnd(Split(AtEnd(coverFileSplits, 1), "."), 2)

\* Lines 366-368: the public id of the document, taken from its URL.
BookFilePublicId(book) ==
    LET bookFileSplits == Split(book.file, "/")
    IN  AtEnd(bookFileSplits, 2) \o <<"/">> \o AtEnd(bookFileSplits, 1)

\* DeleteAccess without the comparison of the caller with the author.
DeleteAccess_noOwnerCheck(r) ==
    IF r.book = NoBook THEN Respond(r, 404, <<"Book not found">>, NoBody)
    ELSE [r EXCEPT !.pc = "destroyCover"]

\* Lines 346-357: the record is looked up and the caller checked against
\* its author.
DeleteAccess(r) ==
    IF r.book = NoBook THEN Respond(r, 404, <<"Book not found">>, NoBody)
    ELSE IF r.book.author # r.userId
        THEN Respond(r, 403, <<"You can not delete others book.">>, NoBody)
    ELSE [r EXCEPT !.pc = "destroyCover"]

\* Lines 342-375: findOne returns the record (or null) and the handler runs
\* up to the first destroy call.
DeleteStart(p) ==
    /\ req[p].op = "delete" /\ req[p].pc = "received"
    /\ req' = [req EXCEPT ![p] =
                 DeleteAccess([@ EXCEPT !.book = catalog[req[p].bookId]])]
    /\ UNCHANGED <<catalog, lastId, remote, nUploads, disk, nReq>>

\* Lines 346, 390-395: findOne throws.
DeleteFindFailed(p) ==
    /\ req[p].op = "delete" /\ req[p].pc = "received"
    /\ req' = [req EXCEPT ![p] = DeleteFailure(req[p], StoreError)]
    /\ UNCHANGED <<catalog, lastId, remote, nUploads, disk, nReq>>

\* Lines 375-376: the cover object is destroyed; the document's destroy is
\* called.
DeleteCoverDestroyed(p) ==
    /\ req[p].op = "delete" /\ req[p].pc = "destroyCover"
    /\ remote' = Destroyed(remote, CoverImagePublicId(req[p].book), "image")
    /\ req' = [req EXCEPT ![p] =
                 [@ EXCEPT !.pc = "destroyFile", !.destroys = @ + 1]]
    /\ UNCHANGED <<catalog, lastId, nUploads, disk, nReq>>

\* Lines 375, 379-387: destroying the cover object throws; deleteOne is
\* called.
DeleteCoverDestroyFailed(p) ==
    /\ req[p].op = "delete" /\ req[p].pc = "destroyCover"
    /\ req' = [req EXCEPT ![p] =
                 [@ EXCEPT !.pc = "deleteOne", !.destroys = @ + 1,
                           !.destroyFailed = TRUE]]
    /\ UNCHANGED <<catalog, lastId, remote, nUploads, disk, nReq>>

\* Lines 376-387: the document object is destroyed; deleteOne is called.
DeleteFileDestroyed(p) ==
    /\ req[p].op = "delete" /\ req[p].pc = "destroyFile"
    /\ remote' = Destroyed(remote, BookFilePublicId(req[p].book), "raw")
    /\ req' = [req EXCEPT ![p] =
                 [@ EXCEPT !.pc = "deleteOne", !.destroys = @ + 1]]
    /\ UNCHANGED <<catalog, lastId, nUploads, disk, nReq>>

\* DeleteFileDestroyFailed with the error passed on to the outer catch.
DeleteFileDestroyFailed_escalated(p) ==
    /\ req[p].op = "delete" /\ req[p].pc = "destroyFile"
    /\ req' = [req EXCEPT ![p] =
                 DeleteFailure([@ EXCEPT !.destroys = @ + 1,
                                         !.destroyFailed = TRUE],
                               StoreError)]
    /\ UNCHANGED <<catalog, lastId, remote, nUploads, disk, nReq>>

\* Lines 376-387: destroying the document object throws; deleteOne is
\* called.
DeleteFileDestroyFailed(p) ==
    /\ req[p].op = "delete" /\ req[p].pc = "destroyFile"
    /\ req' = [req EXCEPT ![p] =
                 [@ EXCEPT !.pc = "deleteOne", !.destroys = @ + 1,
                           !.destroyFailed = TRUE]]
    /\ UNCHANGED <<catalog, lastId, remote, nUploads, disk, nReq>>

\* Lines 387-389: the record is deleted; 204 is sent.
DeleteDeleted(p) ==
    /\ req[p].op = "delete" /\ req[p].pc = "deleteOne"
    /\ catalog' = [catalog EXCEPT ![req[p].bookId] = NoBook]
    /\ req' = [req EXCEPT ![p] =
                 Respond([@ EXCEPT !.writes = @ + 1], 204, <<>>, NoBody)]
    /\ UNCHANGED <<lastId, remote, nUploads, disk, nReq>>

\* Lines 387, 390-395: deleteOne throws.
DeleteDeleteFailed(p) ==
    /\ req[p].op = "delete" /\ req[p].pc = "deleteOne"
    /\ req' = [req EXCEPT ![p] = DeleteFailure(req[p], StoreError)]
    /\ UNCHANGED <<catalog, lastId, remote, nUploads, disk, nReq>>

\* ------------------------------------------------------------ specification

\* req.body of a create request: complete, or lacking one field.
CreateBodies ==
    { [title |-> "Dune", genre |-> "SciFi", description |-> "sand"],
      [title |-> "", genre |-> "SciFi", description |-> "sand"],
      [title |-> "Dune", genre |-> "", description |-> "sand"],
      [title |-> "Dune", genre |-> "SciFi", description |-> ""] }

\* req.body of an update request.
UpdateBodies ==
    { [title |-> "Emma", genre |-> "Novel", description |-> "match"] }

\* req.files.coverImage and req.files.file of the next request: absent, or a
\* staged file of either content type.
CoverFiles == {NoFile} \cup {StagedFile(nReq + 1, "coverImage", m) : m \in Mimetypes}
BookFiles  == {NoFile} \cup {StagedFile(nReq + 1, "file", m) : m \in Mimetypes}

\* Whether the two staged files are on disk when the handler runs: both, or
\* all but one.
OnDisk == {<<TRUE, TRUE>>, <<FALSE, TRUE>>, <<TRUE, FALSE>>}

\* The identifiers a request can name: those assigned so far and the next.
KnownIds == {b \in BookIds : b <= lastId + 1}

ReceiveCreate(p) ==
    \E user \in Users, body \in CreateBodies, cover \in CoverFiles,
       file \in BookFiles, d \in OnDisk :
        Receive(p, "create", user, 0, body, cover, file, d[1], d[2])

ReceiveUpdate(p) ==
    \E user \in Users, bookId \in KnownIds, body \in UpdateBodies,
       cover \in CoverFiles, file \in BookFiles, d \in OnDisk :
        Receive(p, "update", user, bookId, body, cover, file, d[1], d[2])

ReceiveDelete(p) ==
    \E user \in Users, bookId \in KnownIds :
        Receive(p, "delete", user, bookId, EmptyFields, NoFile, NoFile,
                TRUE, TRUE)

Next ==
    \E p \in Procs :
        \/ ReceiveCreate(p)
        \/ CreateStart(p)
        \/ CreateCoverUploaded(p)
        \/ CreateCoverFailed(p)
        \/ CreateFileUploaded(p)
        \/ CreateFileFailed(p)
        \/ CreatePersisted(p)
        \/ CreatePersistFailed(p)
        \/ CreateUnlinkedCover(p)
        \/ CreateUnlinkCoverFailed(p)
        \/ CreateUnlinkedFile(p)
        \/ CreateCatchUnlinkedCover(p)
        \/ CreateCatchUnlinkedFile(p)
        \/ ReceiveUpdate(p)
        \/ UpdateStart(p)
        \/ UpdateFindFailed(p)
        \/ UpdateCoverUploaded(p)
        \/ UpdateCoverFailed(p)
        \/ UpdateUnlinkedCover(p)
        \/ UpdateFileUploaded(p)
        \/ UpdateFileFailed(p)
        \/ UpdateUnlinkedFile(p)
        \/ UpdatePersisted(p)
        \/ UpdatePersistFailed(p)
        \/ ReceiveDelete(p)
        \/ DeleteStart(p)
        \/ DeleteFindFailed(p)
        \/ DeleteCoverDestroyed(p)
        \/ DeleteCoverDestroyFailed(p)
        \/ DeleteFileDestroyed(p)
        \/ DeleteFileDestroyFailed(p)
        \/ DeleteDeleted(p)
        \/ DeleteDeleteFailed(p)

Spec == Init /\ [][Next]_vars

\* The names the upload middleware can have given the staged files
\* (coverImageFile.filename, bookFile.filename): with no dot, with one and
\* with several.
CoverNames ==
    { <<"cover">>, <<"my", ".", "cover">>,
      <<"my", ".", "cover", ".", "png">> }
FileNames ==
    { <<"book">>, <<"my", ".", "book", ".", "pdf">> }

\* A valid create request whose two staged files carry any of these names.
ReceiveNamedCreate(p) ==
    \E user \in Users, cn \in CoverNames, fn \in FileNames :
        Receive(p, "create", user, 0,
                [title |-> "Dune", genre |-> "SciFi", description |-> "sand"],
                [StagedFile(nReq + 1, "coverImage", ImagePng)
                    EXCEPT !.filename = cn],
                [StagedFile(nReq + 1, "file", AppPdf) EXCEPT !.filename = fn],
                TRUE, TRUE)

\* Creates of files of every name, and deletes.
NextRoundTrip ==
    \E p \in Procs :
        \/ ReceiveNamedCreate(p)
        \/ CreateStart(p)
        \/ CreateCoverUploaded(p)
        \/ CreateCoverFailed(p)
        \/ CreateFileUploaded(p)
        \/ CreateFileFailed(p)
        \/ CreatePersisted(p)
        \/ CreatePersistFailed(p)
        \/ CreateUnlinkedCover(p)
        \/ CreateUnlinkCoverFailed(p)
        \/ CreateUnlinkedFile(p)
        \/ CreateCatchUnlinkedCover(p)
        \/ CreateCatchUnlinkedFile(p)
        \/ ReceiveDelete(p)
        \/ DeleteStart(p)
        \/ DeleteFindFailed(p)
        \/ DeleteCoverDestroyed(p)
        \/ DeleteCoverDestroyFailed(p)
        \/ DeleteFileDestroyed(p)
        \/ DeleteFileDestroyFailed(p)
        \/ DeleteDeleted(p)
        \/ DeleteDeleteFailed(p)

SpecRoundTrip == Init /\ [][NextRoundTrip]_vars

\* ------------------------------------------------------------------ claims

\* The connection p takes a step of the request it is handling.
Steps(p) == Busy(p) /\ req'[p] # req[p]

\* The request on p is answered.
Answered(p) == req[p].pc = "done"

\* The temp files of the request on p that are on disk.
TempFiles(p) == {f \in disk : f.req = req[p].id}

\* Some object of the remote store is served at the URL.
Resolves(url) == \E o \in remote : UrlOf(o) = url

\* C1: every record in the catalog has a coverImage and a file URL that each
\* refer to an object that exists in the remote store.
C1_CatalogUrlsResolve ==
    \A b \in BookIds :
        catalog[b] # NoBook =>
            Resolves(catalog[b].coverImage) /\ Resolves(catalog[b].file)

\* C2: createBook answers 201 only after both uploads and the record
\* creation succeeded; the creation adds exactly one record, which holds the
\* two URLs the uploads returned and the caller as author; no other step of
\* a create changes the catalog, and every other answer is an error.
C2_CreateAllOrNothing ==
    [][\A p \in Procs :
        (Steps(p) /\ req[p].op = "create") =>
            /\ req[p].pc = "uploadCover" /\ req'[p].pc = "uploadFile" =>
                   \E o \in remote' \ remote : req'[p].coverUrl = UrlOf(o)
            /\ req[p].pc = "uploadFile" /\ req'[p].pc = "persist" =>
                   /\ \E o \in remote' \ remote : req'[p].fileUrl = UrlOf(o)
                   /\ req'[p].coverUrl = req[p].coverUrl
            /\ IF req'[p].writes # req[p].writes
               THEN \E b \in BookIds :
                        /\ catalog[b] = NoBook
                        /\ catalog' = [catalog EXCEPT ![b] =
                               [title |-> req[p].body.title,
                                description |-> req[p].body.description,
                                genre |-> req[p].body.genre,
                                author |-> req[p].userId,
                                coverImage |-> req[p].coverUrl,
                                file |-> req[p].fileUrl]]
                        /\ req[p].uploads = 2 /\ ~req[p].uploadFailed
                        /\ req'[p].writes = 1
               ELSE catalog' = catalog
            /\ Answered(p)' =>
                   IF req'[p].writes = 1
                   THEN req'[p].resp.status = 201
                   ELSE req'[p].resp.status \in {400, 500}
      ]_vars

\* C2 witness: a create has answered 201 and its record is in the catalog.
C2_Witness ==
    \E p \in Procs :
        /\ Answered(p) /\ req[p].op = "create" /\ req[p].resp.status = 201
        /\ req[p].resp.body = [id |-> req[p].bookId]
        /\ catalog[req[p].bookId] # NoBook
        /\ catalog[req[p].bookId].author = "u2"

\* The create request r violates a precondition: a field is missing, the
\* cover's type is not an image type, or the document's type is not PDF.
ViolatesPrecondition(r) ==
    \/ "" \in {r.body.title, r.body.genre, r.body.description}
    \/ r.coverImage.present
         /\ (Len(r.coverImage.mimetype) < 2
               \/ r.coverImage.mimetype[1] # "image"
               \/ r.coverImage.mimetype[2] # "/")
    \/ r.file.present /\ r.file.mimetype # <<"application", "/", "pdf">>

\* C3: a create request that violates a precondition is answered 400 in its
\* first step, having made no upload call and created no record.
C3_InvalidCreateRejected ==
    [][\A p \in Procs :
        (Steps(p) /\ req[p].op = "create" /\ req[p].pc = "received"
              /\ ViolatesPrecondition(req[p])) =>
            /\ Answered(p)' /\ req'[p].resp.status = 400
            /\ req'[p].uploads = 0 /\ req'[p].writes = 0
            /\ catalog' = catalog /\ remote' = remote /\ nUploads' = nUploads
            /\ lastId' = lastId
      ]_vars

\* C3 witness: a create with a document that is no PDF was refused.
C3_Witness ==
    \E p \in Procs :
        /\ Answered(p) /\ req[p].op = "create" /\ req[p].resp.status = 400
        /\ req[p].resp.message = <<"Book file must be a PDF">>
        /\ req[p].uploads = 0

\* C4: an update or delete of an existing record by a caller who is not its
\* author makes no upload, no remote deletion and no unlink and leaves the
\* catalog as it is; it is answered 403 as soon as findOne has returned the
\* record (500 if findOne itself throws).
C4_NotOwnerRefused ==
    [][\A p \in Procs :
        (/\ Steps(p) /\ req[p].op \in {"update", "delete"}
         /\ req[p].pc = "received"
         /\ catalog[req[p].bookId] # NoBook
         /\ catalog[req[p].bookId].author # req[p].userId) =>
            /\ Answered(p)'
            /\ \/ req'[p].resp.status = 403
               \/ /\ req'[p].resp.status = 500
                  /\ req'[p].resp.message[2] = StoreError.message[1]
            /\ catalog' = catalog /\ remote' = remote /\ disk' = disk
            /\ req'[p].uploads = 0 /\ req'[p].destroys = 0
            /\ req'[p].unlinked = {} /\ req'[p].writes = 0
      ]_vars

\* C4 witness: an update by "u2" of the book of "u1" was answered 403 and
\* the book is as it was.
C4_Witness ==
    \E p \in Procs :
        /\ Answered(p) /\ req[p].op = "update" /\ req[p].resp.status = 403
        /\ catalog[req[p].bookId] = FirstBook
        /\ \E f \in TempFiles(p) : f.field = "coverImage"

\* C5: when a create or update request is answered, a deletion has been
\* attempted of each of its staged files that exists.
C5_StagedFilesUnlinked ==
    \A p \in Procs :
        (Answered(p) /\ req[p].op \in {"create", "update"}) =>
            \A f \in TempFiles(p) : f.field \in req[p].unlinked

\* C6: a create that got past validation and the presence check, and whose
\* unlink calls all succeeded, is answered with none of its temp files left
\* on disk: either 201 after its one record creation, or an error with no
\* record created.
C6_CreateRemovesTempFiles ==
    \A p \in Procs :
        (/\ Answered(p) /\ req[p].op = "create"
         /\ req[p].uploads > 0 /\ ~req[p].unlinkFailed) =>
            /\ TempFiles(p) = {}
            /\ IF req[p].resp.status = 201
               THEN req[p].writes = 1 /\ ~req[p].uploadFailed
               ELSE /\ req[p].resp.status \in {400, 500}
                    /\ req[p].writes = 0 /\ req[p].bookId = 0

\* C6 witness: the cover upload succeeded, the document upload threw, the
\* create was answered 500 and both temp files were unlinked.
C6_Witness ==
    \E p \in Procs :
        /\ Answered(p) /\ req[p].op = "create"
        /\ req[p].uploads = 2 /\ req[p].uploadFailed /\ ~req[p].unlinkFailed
        /\ req[p].resp.status = 500
        /\ req[p].unlinked = {"coverImage", "file"}
        /\ TempFiles(p) = {}

\* C7 as claimed: every delete that passed the ownership check is answered
\* 204 with no body and its record is gone.
C7_OwnerDeleteRemoves ==
    \A p \in Procs :
        (Answered(p) /\ req[p].op = "delete" /\ req[p].destroys > 0) =>
            /\ req[p].resp.status = 204 /\ req[p].resp.body = NoBody
            /\ catalog[req[p].bookId] = NoBook

\* C7 as amended: a delete of an existing record by its owner goes, whatever
\* each remote deletion does, to deleteOne; when deleteOne returns the
\* record is gone and the answer is 204 with no body; only when deleteOne
\* throws is the answer 500 and the record left.
C7_OwnerDeleteRemovesUnlessStoreThrows ==
    [][\A p \in Procs :
        (Steps(p) /\ req[p].op = "delete") =>
            /\ (/\ req[p].pc = "received"
                /\ catalog[req[p].bookId] # NoBook
                /\ catalog[req[p].bookId].author = req[p].userId) =>
                   \/ req'[p].pc = "destroyCover"
                   \/ Answered(p)' /\ req'[p].resp.status = 500
            /\ req[p].pc \in {"destroyCover", "destroyFile"} =>
                   /\ req'[p].pc \in {"destroyFile", "deleteOne"}
                   /\ catalog' = catalog
            /\ req[p].pc = "deleteOne" =>
                   /\ Answered(p)'
                   /\ \/ /\ req'[p].resp.status = 204
                         /\ req'[p].resp.body = NoBody
                         /\ catalog'[req[p].bookId] = NoBook
                      \/ /\ req'[p].resp.status = 500
                         /\ req'[p].resp.message[2] = StoreError.message[1]
                         /\ catalog' = catalog
      ]_vars

\* C7 witness: a remote deletion threw, the delete was answered 204 and the
\* record is gone.
C7_Witness ==
    \E p \in Procs :
        /\ Answered(p) /\ req[p].op = "delete" /\ req[p].destroyFailed
        /\ req[p].destroys = 2
        /\ req[p].resp.status = 204 /\ req[p].resp.body = NoBody
        /\ catalog[req[p].bookId] = NoBook

\* C8: when an upload of an update throws, the request is answered 500 in
\* that step, has made no catalog update and the catalog is as it was.
C8_UpdateUploadFailureAborts ==
    [][\A p \in Procs :
        (/\ Steps(p) /\ req[p].op = "update"
         /\ req[p].pc \in {"uploadCover", "uploadFile"}
         /\ remote' = remote) =>
            /\ Answered(p)' /\ req'[p].resp.status = 500
            /\ req'[p].uploadFailed
            /\ req'[p].writes = 0
            /\ catalog' = catalog
      ]_vars

\* C8 witness: the cover upload of an update succeeded, its document upload
\* threw, the answer is 500 and the record is as it was.
C8_Witness ==
    \E p \in Procs :
        /\ Answered(p) /\ req[p].op = "update" /\ req[p].uploadFailed
        /\ req[p].uploads = 2 /\ req[p].resp.status = 500
        /\ req[p].writes = 0
        /\ catalog[req[p].bookId] = FirstBook

\* C9: an update refused for the content type of a file has made no upload
\* call.
C9_TypeErrorBeforeUpload ==
    \A p \in Procs :
        (/\ Answered(p) /\ req[p].op = "update" /\ req[p].resp.status = 400
         /\ req[p].resp.message \in {<<"Cover image must be an image file">>,
                                     <<"Book file must be a PDF">>}) =>
            req[p].uploads = 0

\* C10: the findOneAndUpdate of an update by the owner, on a record that is
\* as the request loaded it, is the request's only change of the catalog;
\* it sets title, description and genre to the request's, coverImage to the
\* uploaded cover's URL if a cover was supplied and file to the uploaded
\* document's URL if a document was supplied, keeps the other values, and
\* the record answered (200) is the record stored.
C10_UpdateResult ==
    [][\A p \in Procs :
        (Steps(p) /\ req[p].op = "update") =>
            /\ req[p].pc = "uploadCover" /\ req'[p].pc = "unlinkCover" =>
                   \E o \in remote' \ remote : req'[p].coverUrl = UrlOf(o)
            /\ req[p].pc = "uploadFile" /\ req'[p].pc = "unlinkFile" =>
                   \E o \in remote' \ remote : req'[p].fileUrl = UrlOf(o)
            /\ req[p].pc # "persist" =>
                   /\ catalog' = catalog
                   /\ req'[p].writes = 0
                   /\ ~(Answered(p)' /\ req'[p].resp.status = 200)
                   /\ Busy(p)' /\ req[p].pc # "received" =>
                          /\ req'[p].book = req[p].book
                          /\ req[p].coverUrl # <<>> => req'[p].coverUrl = req[p].coverUrl
            /\ (/\ req[p].pc = "persist"
                /\ catalog[req[p].bookId] = req[p].book
                /\ req'[p].resp.status = 200) =>
                   LET before == catalog[req[p].bookId]
                       after  == catalog'[req[p].bookId]
                   IN  /\ req[p].book.author = req[p].userId
                       /\ after.title = req[p].body.title
                       /\ after.description = req[p].body.description
                       /\ after.genre = req[p].body.genre
                       /\ after.author = before.author
                       /\ after.coverImage =
                              IF req[p].coverImage.present
                              THEN req[p].coverUrl ELSE before.coverImage
                       /\ after.file =
                              IF req[p].file.present
                              THEN req[p].fileUrl ELSE before.file
                       /\ req[p].coverImage.present => req[p].coverUrl # <<>>
                       /\ req[p].file.present => req[p].fileUrl # <<>>
                       /\ \A b \in BookIds \ {req[p].bookId} :
                              catalog'[b] = catalog[b]
                       /\ req'[p].writes = 1
                       /\ req'[p].resp.body = after
      ]_vars

\* C10 witness: an update that supplied a document and no cover was answered
\* 200 with the stored record, which has the new fields, the old cover and a
\* new document.
C10_Witness ==
    \E p \in Procs :
        /\ Answered(p) /\ req[p].op = "update" /\ req[p].resp.status = 200
        /\ req[p].resp.body = catalog[req[p].bookId]
        /\ req[p].resp.body # NullBody
        /\ req[p].resp.body.title = "Emma"
        /\ req[p].resp.body.coverImage = FirstBook.coverImage
        /\ req[p].resp.body.file # FirstBook.file
        /\ req[p].uploads = 1

\* C11: whenever an update is answered 200, under any interleaving with the
\* other connection's update or delete of the same book, the body of the
\* answer is the full record, it carries the values of this request, and
\* the catalog holds that record when the write returns.
C11_UpdateAnswersWrittenRecord ==
    [][\A p \in Procs :
        (/\ Steps(p) /\ req[p].op = "update"
         /\ Answered(p)' /\ req'[p].resp.status = 200) =>
            /\ req'[p].resp.body # NullBody
            /\ req'[p].resp.body = catalog'[req[p].bookId]
            /\ req'[p].resp.body.title = req[p].body.title
            /\ req'[p].resp.body.description = req[p].body.description
            /\ req'[p].resp.body.genre = req[p].body.genre
      ]_vars

\* C12: in a create or an update in which nothing has failed so far, the
\* step in which the unlink of a staged file throws does not answer the
\* request with an error: the failure is swallowed and the request goes on
\* to its success answer.
C12_UnlinkFailureNotEscalated ==
    [][\A p \in Procs :
        (/\ Steps(p) /\ req[p].op \in {"create", "update"}
         /\ ~req[p].unlinkFailed /\ req'[p].unlinkFailed
         /\ ~req[p].uploadFailed /\ req[p].err = NoErr) =>
            ~(Answered(p)' /\ req'[p].resp.status >= 400)
      ]_vars

\* C13: the steps of a create run one after the other.  The cover upload
\* is called only on a request that passed validation and the presence
\* check; the document upload only once the cover upload has returned its
\* URL; the record is created only once both uploads have returned; the
\* temp files are unlinked on the success path only once the record is
\* created, the cover's first; and 201 is answered only after the creation
\* and the call of the unlinks.
C13_CreateStepsInOrder ==
    \A p \in Procs :
        LET r == req[p] IN
        r.op = "create" =>
            /\ r.pc = "uploadCover" =>
                  /\ CreateValidate(r.body, r.coverImage, r.file, disk) = <<>>
                  /\ r.uploads = 0 /\ r.coverUrl = <<>> /\ r.fileUrl = <<>>
                  /\ r.writes = 0 /\ r.unlinked = {}
            /\ r.pc = "uploadFile" =>
                  /\ r.uploads = 1 /\ Resolves(r.coverUrl) /\ r.fileUrl = <<>>
                  /\ r.writes = 0 /\ r.unlinked = {}
            /\ r.pc = "persist" =>
                  /\ r.uploads = 2 /\ Resolves(r.coverUrl)
                  /\ Resolves(r.fileUrl)
                  /\ r.writes = 0 /\ r.unlinked = {}
            /\ r.pc = "unlinkCover" =>
                  r.uploads = 2 /\ r.writes = 1 /\ r.unlinked = {}
            /\ r.pc = "unlinkFile" =>
                  r.uploads = 2 /\ r.writes = 1 /\ r.unlinked = {"coverImage"}
            /\ r.writes = 1 => r.uploads = 2 /\ ~r.uploadFailed
            /\ (Answered(p) /\ r.resp.status = 201) =>
                  /\ r.writes = 1 /\ r.bookId = r.resp.body.id
                  /\ "coverImage" \in r.unlinked

\* C13 witness: a create has uploaded both files and created its record,
\* the cover temp file is unlinked and the unlink of the document temp file
\* is under way.
C13_Witness ==
    \E p \in Procs :
        /\ req[p].op = "create" /\ req[p].pc = "unlinkFile"
        /\ catalog[req[p].bookId] = NewBook(req[p])
        /\ \A f \in TempFiles(p) : f.field = "file"
        /\ TempFiles(p) # {}

\* The objects of the remote store that no record of the catalog refers to.
Orphans ==
    {o \in remote :
        \A b \in BookIds :
            catalog[b] # NoBook =>
                UrlOf(o) \notin {catalog[b].coverImage, catalog[b].file}}

\* C14: no step of a create removes an object from the remote store, and a
\* create that is answered with an error after an upload succeeded leaves
\* the objects it uploaded in the remote store, with no record referring
\* to them.
C14_CreateKeepsRemoteObjects ==
    [][\A p \in Procs :
        (Steps(p) /\ req[p].op = "create") =>
            /\ remote \subseteq remote'
            /\ (Answered(p)' /\ req'[p].resp.status >= 400) =>
                  \A u \in {req[p].coverUrl, req[p].fileUrl} \ {<<>>} :
                      \E o \in Orphans' : UrlOf(o) = u
      ]_vars

\* C14 witness: a create whose cover upload succeeded and whose document
\* upload threw was answered 500; the cover object is in the remote store
\* and no record refers to it.
C14_Witness ==
    \E p \in Procs :
        /\ Answered(p) /\ req[p].op = "create" /\ req[p].resp.status = 500
        /\ req[p].uploads = 2 /\ req[p].uploadFailed /\ req[p].writes = 0
        /\ \E o \in Orphans : o.kind = "image"

\* C15: for every record of the catalog, whatever the names of the files it
\* was created from, the identifier deleteBook derives from its coverImage
\* is the public id of the image object that URL is served from and of no
\* other object, and the identifier derived from its file is the public id
\* of the raw object of that URL and of no other; so a delete whose destroy
\* calls returned has removed exactly these two objects.
C15_PublicIdRoundTrip ==
    /\ \A b \in BookIds :
          catalog[b] # NoBook =>
              \A o \in remote :
                  /\ UrlOf(o) = catalog[b].coverImage <=>
                        /\ o.kind = "image"
                        /\ o.publicId = CoverImagePublicId(catalog[b])
                  /\ UrlOf(o) = catalog[b].file <=>
                        /\ o.kind = "raw"
                        /\ o.publicId = BookFilePublicId(catalog[b])
    /\ \A p \in Procs :
          req[p].op = "delete" =>
              /\ req[p].pc = "destroyFile" => ~Resolves(req[p].book.coverImage)
              /\ (req[p].pc = "deleteOne" /\ ~req[p].destroyFailed) =>
                    /\ ~Resolves(req[p].book.coverImage)
                    /\ ~Resolves(req[p].book.file)

\* C15 witness: a create of a cover named with two dots has stored its
\* record and is still unlinking; a delete of that record on the other
\* connection has made its two destroy calls, and of the remote store the
\* two objects of the first book are all that is left.
C15_Witness ==
    \E p, q \in Procs :
        /\ req[p].op = "create" /\ req[p].pc = "unlinkFile"
        /\ Len(Split(req[p].coverImage.filename, ".")) = 3
        /\ req[q].op = "delete" /\ req[q].pc = "deleteOne"
        /\ req[q].bookId = req[p].bookId
        /\ req[q].book = NewBook(req[p])
        /\ req[q].destroys = 2 /\ ~req[q].destroyFailed
        /\ remote = {FirstCover, FirstFile}

\* C16: a delete that passed the ownership check has called destroy for
\* both objects, the cover's and the document's, by the time it calls
\* deleteOne and when it is answered, whether or not a destroy call threw.
C16_BothDestroysAttempted ==
    \A p \in Procs :
        (/\ req[p].op = "delete"
         /\ \/ req[p].pc = "deleteOne"
            \/ Answered(p) /\ req[p].destroys > 0) =>
            req[p].destroys = 2

\* C17: a create that failed in an upload or in the creation of the record
\* is answered only after an unlink was attempted of each of its two temp
\* files that exists: a temp file it leaves on disk is one whose unlink
\* was called and threw.
C17_FailedCreateUnlinksEach ==
    \A p \in Procs :
        (/\ Answered(p) /\ req[p].op = "create"
         /\ req[p].uploads > 0 /\ req[p].resp.status >= 400) =>
            \A f \in TempFiles(p) : f.field \in req[p].unlinked

\* C18: the answer of a failed create follows the step that failed,
\* whatever the error's message, name and code: 500 when an upload threw,
\* and 400 "Invalid book data: " with the validator's message when
\* bookModel.create rejected the record with a ValidationError.
C18_FailureCategoryByStep ==
    [][\A p \in Procs :
        (/\ Steps(p) /\ req[p].op = "create" /\ Answered(p)'
         /\ req[p].err # NoErr) =>
            IF req[p].uploadFailed
            THEN req'[p].resp.status = 500
            ELSE req[p].err.name = "ValidationError" =>
                    /\ req'[p].resp.status = 400
                    /\ req'[p].resp.message =
                          <<"Invalid book data: ">> \o req[p].err.message
      ]_vars

\* The findOneAndUpdate of the update on connection p returns the record,
\* which is as the update on the other connection q, handled while p's was,
\* wrote and answered it.
SecondWrite(p, q) ==
    /\ p # q
    /\ Steps(p) /\ req[p].op = "update" /\ req[p].pc = "persist"
    /\ catalog[req[p].bookId] # NoBook
    /\ Answered(p)' /\ req'[p].resp.status = 200
    /\ Answered(q) /\ req[q].op = "update" /\ req[q].resp.status = 200
    /\ req[q].bookId = req[p].bookId
    /\ req[q].resp.body = catalog[req[p].bookId]

\* C19 as claimed: of two concurrent updates of a record by its owner that
\* both succeed, the later write leaves the record as the two updates run
\* one after the other would: a URL field whose file the later writer did
\* not supply keeps the value the earlier write gave it.
C19_ConcurrentUpdatesSerialize ==
    [][\A p, q \in Procs :
        SecondWrite(p, q) =>
            LET before == catalog[req[p].bookId]
                after  == catalog'[req[p].bookId]
            IN  /\ ~req[p].coverImage.present =>
                      after.coverImage = before.coverImage
                /\ ~req[p].file.present => after.file = before.file
      ]_vars

\* C19, amended: of two concurrent updates of a record that both succeed
\* the later write wins as a whole.  It sets title, description and genre
\* to its request's and each URL field to its own upload if it supplied
\* the file, else to the value its own findOne had read, whatever the
\* earlier write stored there; the author stays and the record answered
\* is the record stored.
C19_LastWriteWins ==
    [][\A p, q \in Procs :
        SecondWrite(p, q) =>
            LET before == catalog[req[p].bookId]
                after  == catalog'[req[p].bookId]
            IN  /\ after.title = req[p].body.title
                /\ after.description = req[p].body.description
                /\ after.genre = req[p].body.genre
                /\ after.author = before.author
                /\ after.coverImage =
                       IF req[p].coverImage.present
                       THEN req[p].coverUrl ELSE req[p].book.coverImage
                /\ after.file =
                       IF req[p].file.present
                       THEN req[p].fileUrl ELSE req[p].book.file
                /\ req'[p].resp.body = after
      ]_vars

\* C19 witness: two updates of the first book were answered 200.  One
\* uploaded a new cover and stored its URL; the other, which supplied no
\* file, wrote last: the record is the one it answered, with the first
\* cover's URL again, and the new cover object is left without a record.
C19_Witness ==
    \E p, q \in Procs :
        /\ p # q
        /\ Answered(p) /\ req[p].op = "update" /\ req[p].resp.status = 200
        /\ Answered(q) /\ req[q].op = "update" /\ req[q].resp.status = 200
        /\ req[p].bookId = req[q].bookId
        /\ req[p].uploads = 0
        /\ req[q].resp.body # NullBody
        /\ req[q].resp.body.coverImage # FirstBook.coverImage
        /\ catalog[req[p].bookId] = req[p].resp.body
        /\ catalog[req[p].bookId].coverImage = FirstBook.coverImage
        /\ \E o \in Orphans : UrlOf(o) = req[q].resp.body.coverImage

====
